---- MODULE Spec2Model ----
(***************************************************************************)
(* Model of the metadata cache and synchronization engine of               *)
(* albus-status-bar-music: MetadataManager (cache, dirty flag, debounced   *)
(* save timer, refreshAllMetadata batches, file change events) together    *)
(* with MetadataParser (cover blob registry, the lyrics fallback chain of   *)
(* extractLyrics and the text normalization of extractLyricsText) and the  *)
(* consumers of getAllMetadata, which hold the records of the cache.       *)
(*                                                                         *)
(* Tag values of the decoding library are records with a type field; the   *)
(* iTunes tag id that starts with the copyright sign is written "(c)lyr".  *)
(* JavaScript values are modelled as TLA+ strings; null and undefined are  *)
(* the two reserved strings NULL and UNDEFINED.  The Chinese placeholder   *)
(* literals of the source are written in ASCII as "zh:...".  Timers are a   *)
(* queue in creation order; a timer fires when no timer created before it  *)
(* with a delay not larger than its own is still pending (every delay of   *)
(* the source is 500 ms, so the order is FIFO).  An awaited read or decode  *)
(* takes any amount of time.  One refreshAllMetadata call runs at a time.  *)
(*                                                                         *)
(* Four variables record history the program itself does not keep:         *)
(* liveUrls is the set of object URLs created and not yet revoked;         *)
(* staleJobs counts, per path, the extractions in flight that read the     *)
(* file before its latest change event; storedLatest tells, per path,      *)
(* whether the cached record comes from an extraction that read the file   *)
(* after that event; disposed tells that cleanup was called.  cleanup is   *)
(* the last call the plugin makes on the manager: afterwards only timers   *)
(* and awaited work that were already pending go on.                       *)
(***************************************************************************)
EXTENDS Integers, Sequences, FiniteSets, TLC

(***************************************************************************)
(* Bounds of the model.                                                    *)
(***************************************************************************)
MaxEvents == 2
MaxRefresh == 1
MaxBatches == 2
MaxLifecycle == 1
MaxInits == 3
MaxCalls == 2

(***************************************************************************)
(* Program constants.                                                      *)
(***************************************************************************)
SettleDelay == 500
SaveDelay == 500

(***************************************************************************)
(* JavaScript values and string helpers.                                   *)
(***************************************************************************)
NULL == "<null>"
UNDEFINED == "<undefined>"

Truthy(v) == v \notin {"", NULL, UNDEFINED}

Or(v, d) == IF Truthy(v) THEN v ELSE d

StartsWith(s, prefix) ==
    /\ Len(s) >= Len(prefix)
    /\ SubSeq(s, 1, Len(prefix)) = prefix

EndsWith(s, suffix) ==
    /\ Len(s) >= Len(suffix)
    /\ SubSeq(s, Len(s) - Len(suffix) + 1, Len(s)) = suffix

RECURSIVE TrimLeft(_)
TrimLeft(s) ==
    IF Len(s) > 0 /\ SubSeq(s, 1, 1) = " " THEN TrimLeft(SubSeq(s, 2, Len(s))) ELSE s

RECURSIVE TrimRight(_)
TrimRight(s) ==
    IF Len(s) > 0 /\ SubSeq(s, Len(s), Len(s)) = " "
    THEN TrimRight(SubSeq(s, 1, Len(s) - 1))
    ELSE s

Trim(s) == TrimRight(TrimLeft(s))

\* Index of the last occurrence of the one-character string ch in s, 0 if none.
RECURSIVE LastIndexOf(_, _, _)
LastIndexOf(s, ch, i) ==
    IF i = 0 THEN 0
    ELSE IF SubSeq(s, i, i) = ch THEN i
    ELSE LastIndexOf(s, ch, i - 1)

\* filePath.split('/').pop(), which is also TFile.name
FileName(path) == SubSeq(path, LastIndexOf(path, "/", Len(path)) + 1, Len(path))

\* TFile.basename: the name without its extension
FileBasename(path) ==
    LET name == FileName(path)
        dot == LastIndexOf(name, ".", Len(name))
    IN  IF dot = 0 THEN name ELSE SubSeq(name, 1, dot - 1)

SupportedSuffixes == {".mp3", ".flac", ".m4a", ".ogg", ".wav"}

IsSupportedAudioFile(name) == \E suf \in SupportedSuffixes : EndsWith(name, suf)

NormalizePath(p) ==
    IF Len(p) > 1 /\ EndsWith(p, "/") THEN SubSeq(p, 1, Len(p) - 1) ELSE p

(***************************************************************************)
(* The library: the paths of the vault and the environment's inputs.       *)
(***************************************************************************)
VaultOrder == <<"Music/a.mp3", "Music/b.mp3", "Music/n.txt">>

Paths == {VaultOrder[i] : i \in DOMAIN VaultOrder}

AudioPaths == {p \in Paths : IsSupportedAudioFile(FileName(p))}

RootArgs == {<<>>, <<"  ">>, <<"Music">>, <<"", "Music/">>}

\* What reading and decoding one audio file can yield: the outcome of
\* vault.readBinary, of mm.parseBuffer, the common tags, whether a picture is
\* embedded, the lyrics found in the tags and the text of the .lrc sidecar.
Extractions ==
    { [read |-> "ok", decode |-> "ok", title |-> "Song", artist |-> "Band",
       album |-> "LP", picture |-> TRUE, tagLyrics |-> "emb", lrc |-> "[00:01]la"],
      [read |-> "ok", decode |-> "ok", title |-> UNDEFINED, artist |-> UNDEFINED,
       album |-> UNDEFINED, picture |-> FALSE, tagLyrics |-> NULL, lrc |-> "  "],
      [read |-> "ok", decode |-> "fail", title |-> UNDEFINED, artist |-> UNDEFINED,
       album |-> UNDEFINED, picture |-> FALSE, tagLyrics |-> NULL, lrc |-> UNDEFINED],
      [read |-> "fail", decode |-> "fail", title |-> UNDEFINED, artist |-> UNDEFINED,
       album |-> UNDEFINED, picture |-> FALSE, tagLyrics |-> NULL, lrc |-> UNDEFINED] }

\* Records as a data file or a settings object can hold them.
PersistedRecords ==
    { [title |-> "T", artist |-> "A", album |-> "B", cover |-> "blob:old", lyrics |-> "L"],
      [title |-> "T", artist |-> "A", album |-> UNDEFINED, cover |-> "data:img", lyrics |-> ""],
      [title |-> "", artist |-> "A", album |-> "B", cover |-> NULL, lyrics |-> NULL],
      [title |-> "T", artist |-> UNDEFINED, album |-> "B", cover |-> NULL, lyrics |-> UNDEFINED] }

EmptyMap == [p \in {} |-> NULL]

MetadataMaps == UNION {[S -> PersistedRecords] : S \in SUBSET AudioPaths}

\* A settings object: its metadata field may be missing.
SettingsInputs ==
    {[hasMetadata |-> FALSE, metadata |-> EmptyMap]}
        \cup {[hasMetadata |-> TRUE, metadata |-> m] : m \in MetadataMaps}

\* A parsed JSON value: null, an object (with or without a metadata field),
\* or any other value (number, string, array), which has no metadata field.
ParsedValues ==
    {[shape |-> "null", hasMetadata |-> FALSE, metadata |-> EmptyMap],
     [shape |-> "other", hasMetadata |-> FALSE, metadata |-> EmptyMap],
     [shape |-> "object", hasMetadata |-> FALSE, metadata |-> EmptyMap]}
        \cup {[shape |-> "object", hasMetadata |-> TRUE, metadata |-> m] : m \in MetadataMaps}

\* data.json: missing, unreadable, not JSON, or holding a parsed value.
DataFiles ==
    {[status |-> s, value |-> [shape |-> "null", hasMetadata |-> FALSE, metadata |-> EmptyMap]] :
        s \in {"missing", "readError", "parseError"}}
        \cup {[status |-> "ok", value |-> v] : v \in ParsedValues}

\* What an earlier run of the plugin can have saved: a complete record with
\* the blob URL of that run and an incomplete record.
SavedMap ==
    [p \in AudioPaths |->
        IF p = "Music/a.mp3"
        THEN [title |-> "T", artist |-> "A", album |-> "B", cover |-> "blob:old", lyrics |-> "L"]
        ELSE [title |-> "", artist |-> "A", album |-> "B", cover |-> NULL, lyrics |-> NULL]]

SavedSettings ==
    {[hasMetadata |-> FALSE, metadata |-> EmptyMap], [hasMetadata |-> TRUE, metadata |-> SavedMap]}

SavedDataFiles ==
    {f \in DataFiles : \/ f.status = "missing"
                       \/ f.status = "ok" /\ f.value.shape = "null"
                       \/ f.status = "ok" /\ f.value.hasMetadata /\ f.value.metadata = SavedMap}

(***************************************************************************)
(* State.                                                                  *)
(***************************************************************************)
VARIABLES
    cache,            \* MetadataManager.cache: path -> TrackMetadata
    isDirty,          \* MetadataManager.isDirty
    saveTimeout,      \* MetadataManager.saveTimeout: a timer handle, 0 for null
    onSaveNeeded,     \* whether a save callback is registered
    isInitialized,    \* MetadataManager.isInitialized
    totalTracks,      \* MetadataManager.totalTracks
    processedTracks,  \* MetadataManager.processedTracks
    blobUrls,         \* MetadataParser.blobUrls: the registered blob URLs
    nextBlob,         \* the number URL.createObjectURL gives its next URL
    liveUrls,         \* the object URLs created and not revoked
    timers,           \* pending setTimeout timers, in creation order
    vault,            \* the files that exist
    dataFile,         \* the plugin's data.json
    jobs,             \* change-event extractions in flight, per path
    staleJobs,        \* those of them that read the file before the latest change event for the path
    storedLatest,     \* per path: its record was stored by an extraction that read the file
                      \* after the latest change event for the path
    rpc,              \* where the refreshAllMetadata call stands
    existingData,     \* refreshAllMetadata's existingData
    musicFiles,       \* refreshAllMetadata's musicFiles
    validFolders,     \* refreshAllMetadata's validFolders
    tasks,            \* the state of the processFileIfNeeded task of each of musicFiles
    saveCalls,        \* history: invocations of the save callback
    unflushed,        \* history: the store was mutated since the flush timer last fired
    earlyFlush,       \* history: a flush fired while a settle delay or extraction was outstanding
    staleTimer,       \* history: isDirty was set after the pending save timer was set
    events,           \* history: change events delivered
    refreshes,        \* history: refreshAllMetadata calls
    batchDecodes,     \* history: extractFileMetadata calls of the current batch
    lifecycle,        \* history: initializeFromSettings and cleanup calls
    disposed,         \* history: cleanup was called
    lastSettings,     \* history: the settings last given to initializeFromSettings
    exported,         \* history: the last result of exportToSettings
    view,             \* a consumer's Map, as getAllMetadata returned it and the consumer changed it
    defaultMetadata,  \* the DEFAULT_METADATA object of utils/constants, as it is now
    parsed,           \* the last extractFileMetadata call made on its own: input and result
    normalized        \* the last extractLyricsText call made on its own: value and result

managerVars == <<cache, isDirty, saveTimeout, onSaveNeeded>>
progressVars == <<isInitialized, totalTracks, processedTracks>>
parserVars == <<blobUrls, nextBlob, liveUrls>>
envVars == <<vault, dataFile>>
refreshVars == <<rpc, existingData, musicFiles, validFolders, tasks, refreshes, batchDecodes>>
settingsVars == <<lastSettings, exported>>
historyVars == <<saveCalls, unflushed, earlyFlush, events, lifecycle>>
consumerVars == <<view>>
callVars == <<defaultMetadata, parsed, normalized>>
provenanceVars == <<staleJobs, storedLatest>>

vars == <<cache, isDirty, saveTimeout, onSaveNeeded, isInitialized, totalTracks,
          processedTracks, blobUrls, nextBlob, timers, vault, dataFile, jobs, rpc,
          existingData, musicFiles, validFolders, tasks, saveCalls, unflushed, earlyFlush,
          staleTimer, events, refreshes, batchDecodes, lifecycle, lastSettings, exported,
          view, defaultMetadata, parsed, normalized, liveUrls, staleJobs, storedLatest,
          disposed>>

(***************************************************************************)
(* Maps.                                                                   *)
(***************************************************************************)
MapSet(m, k, v) == [x \in DOMAIN m \cup {k} |-> IF x = k THEN v ELSE m[x]]

MapDelete(m, k) == [x \in DOMAIN m \ {k} |-> m[x]]

(***************************************************************************)
(* Object identity.  The cache holds references to TrackMetadata objects;  *)
(* a Map a consumer got from getAllMetadata holds, under each key, a record *)
(* and whether it is still the very object the cache holds under that key. *)
(* Every cache.set in the source stores a newly built object, so the entry *)
(* of a path stops being shared when the cache sets, deletes or clears it. *)
(***************************************************************************)
NoView == [made |-> FALSE, map |-> EmptyMap]

Detach(v, S) ==
    [v EXCEPT !.map = [p \in DOMAIN v.map |->
                          IF p \in S THEN [v.map[p] EXCEPT !.shared = FALSE] ELSE v.map[p]]]

(***************************************************************************)
(* Timers.                                                                 *)
(***************************************************************************)
TimerIds(q) == {q[i].id : i \in DOMAIN q}

\* A handle no pending timer has and saveTimeout does not hold.
FreshTimerId(q, held) == CHOOSE n \in 1..(Len(q) + 2) : n \notin TimerIds(q) \cup {held}

SavePending(q) == \E i \in DOMAIN q : q[i].kind = "save"

ClearTimeout(q, id) == SelectSeq(q, LAMBDA t : t.id # id)

SetTimeout(q, held, kind, path, delay) ==
    Append(q, [id |-> FreshTimerId(q, held), kind |-> kind, path |-> path, delay |-> delay])

\* The timer at position i is due before every other pending timer can be.
CanFire(q, i) == \A j \in 1..(i - 1) : q[j].delay > q[i].delay

RemoveAt(q, i) == SubSeq(q, 1, i - 1) \o SubSeq(q, i + 1, Len(q))

\* A scheduleSave that leaves the held timer pending.
ScheduleSaveNoClear(q, held) ==
    LET id == FreshTimerId(q, held)
    IN  [timers |-> Append(q, [id |-> id, kind |-> "save", path |-> "", delay |-> SaveDelay]),
         saveTimeout |-> id]

\* scheduleSave(): clear the held timer, set a new one.
ScheduleSave(q, held) ==
    LET cleared == IF held # 0 THEN ClearTimeout(q, held) ELSE q
        id == FreshTimerId(cleared, 0)
    IN  [timers |-> Append(cleared, [id |-> id, kind |-> "save", path |-> "", delay |-> SaveDelay]),
         saveTimeout |-> id]

(***************************************************************************)
(* MetadataParser, as far as the manager drives it.                        *)
(***************************************************************************)
DEFAULT_METADATA ==
    [title |-> "Unknown Title", artist |-> "Unknown Artist", album |-> "Unknown Album",
     cover |-> NULL, lyrics |-> NULL]

\* URL.createObjectURL: a new "blob:" URL on every call.
CreateObjectURL(n) == "blob:" \o ToString(n)

IsBlobUrl(cover) == Truthy(cover) /\ StartsWith(cover, "blob:")

\* extractCover(pictures): the URL made for the first picture, null without one.
ExtractCover(picture, n) == IF picture THEN CreateObjectURL(n) ELSE NULL

\* A return of the DEFAULT_METADATA object itself.
ReturnDefaultItself(d) == [record |-> d, isDefaultObject |-> TRUE]

\* { ...DEFAULT_METADATA }: a new object with the fields the default has now.
SpreadCopy(d) == [record |-> d, isDefaultObject |-> FALSE]

\* extractMetadata(arrayBuffer, lyricsFromLrcFile) for the decoding outcome e.
ExtractMetadata(e, lyricsFromLrcFile, n) ==
    IF e.decode = "ok"
    THEN [title |-> Or(e.title, "zh:unknown-title"),
          artist |-> Or(e.artist, "zh:unknown-artist"),
          album |-> Or(e.album, "zh:unknown-album"),
          cover |-> ExtractCover(e.picture, n),
          lyrics |-> Or(lyricsFromLrcFile, e.tagLyrics)]
    ELSE SpreadCopy(defaultMetadata).record

\* An extractCover that hands the URL out without keeping it.
RegistersNothing(e, n) == {}

\* The blob URLs extractMetadata registers for the decoding outcome e.
RegisteredBy(e, n) ==
    IF e.read = "ok" /\ e.decode = "ok" /\ e.picture THEN {CreateObjectURL(n)} ELSE {}

\* An extractFileMetadata that passes the sidecar text on as it was read.
ExtractFileMetadataRawLrc(e, n) ==
    [threw |-> e.read # "ok", metadata |-> ExtractMetadata(e, e.lrc, n)]

\* extractFileMetadata(file): throws when readBinary fails; the sidecar text
\* is passed on only when it is non-blank.
ExtractFileMetadata(e, n) ==
    LET lyricsFromLrcFile ==
            IF Truthy(e.lrc) /\ Truthy(Trim(e.lrc)) THEN e.lrc ELSE UNDEFINED
    IN  [threw |-> e.read # "ok",
         metadata |-> ExtractMetadata(e, lyricsFromLrcFile, n)]

(***************************************************************************)
(* Tag values.  A value of a decoded tag is any JavaScript value: it is    *)
(* modelled as a record that names its type and holds the string, the      *)
(* elements of the array or the fields of the object.                      *)
(***************************************************************************)
JUndefined == [t |-> "undefined", s |-> "", items |-> <<>>, obj |-> EmptyMap]

JNull == [t |-> "null", s |-> "", items |-> <<>>, obj |-> EmptyMap]

JString(s) == [t |-> "string", s |-> s, items |-> <<>>, obj |-> EmptyMap]

\* A number other than 0; "7" is what it reads as a string.
JNumber == [t |-> "number", s |-> "7", items |-> <<>>, obj |-> EmptyMap]

JArray(items) == [t |-> "array", s |-> "", items |-> items, obj |-> EmptyMap]

JObject(obj) == [t |-> "object", s |-> "", items |-> <<>>, obj |-> obj]

\* !!value
JTruthy(v) ==
    CASE v.t \in {"undefined", "null"} -> FALSE
      [] v.t = "string" -> v.s # ""
      [] OTHER -> TRUE

\* value[field], undefined when the value has no such field
Get(v, field) ==
    IF v.t = "object" /\ field \in DOMAIN v.obj THEN v.obj[field] ELSE JUndefined

NewLine == "\n"

\* What Array.prototype.join makes of an element.
JoinString(v) ==
    CASE v.t \in {"undefined", "null"} -> ""
      [] v.t \in {"string", "number"} -> v.s
      [] v.t = "array" -> "[array]"
      [] OTHER -> "[object Object]"

\* lines.join(sep)
RECURSIVE Join(_, _)
Join(lines, sep) ==
    IF Len(lines) = 0 THEN ""
    ELSE IF Len(lines) = 1 THEN JoinString(lines[1])
    ELSE JoinString(lines[1]) \o sep \o Join(Tail(lines), sep)

LowerChar(ch) ==
    CASE ch = "A" -> "a" [] ch = "B" -> "b" [] ch = "C" -> "c" [] ch = "D" -> "d"
      [] ch = "E" -> "e" [] ch = "F" -> "f" [] ch = "G" -> "g" [] ch = "H" -> "h"
      [] ch = "I" -> "i" [] ch = "J" -> "j" [] ch = "K" -> "k" [] ch = "L" -> "l"
      [] ch = "M" -> "m" [] ch = "N" -> "n" [] ch = "O" -> "o" [] ch = "P" -> "p"
      [] ch = "Q" -> "q" [] ch = "R" -> "r" [] ch = "S" -> "s" [] ch = "T" -> "t"
      [] ch = "U" -> "u" [] ch = "V" -> "v" [] ch = "W" -> "w" [] ch = "X" -> "x"
      [] ch = "Y" -> "y" [] ch = "Z" -> "z" [] OTHER -> ch

\* String.prototype.toLowerCase
RECURSIVE ToLowerCase(_)
ToLowerCase(s) ==
    IF Len(s) = 0 THEN ""
    ELSE LowerChar(SubSeq(s, 1, 1)) \o ToLowerCase(SubSeq(s, 2, Len(s)))

\* String.prototype.includes
Includes(s, part) ==
    \E i \in 1..(Len(s) - Len(part) + 1) : SubSeq(s, i, i + Len(part) - 1) = part

(***************************************************************************)
(* MetadataParser.extractLyricsText.                                       *)
(***************************************************************************)
\* The element a line of value.lyrics is mapped to: the line when it is a
\* string, its text field when it is an object with one, else null.
LineText(line) ==
    IF line.t = "string" THEN line
    ELSE IF JTruthy(line) /\ line.t = "object" /\ "text" \in DOMAIN line.obj
         THEN line.obj["text"]
    ELSE JNull

\* value.lyrics.map(...).filter(line => line !== null)
LyricsLines(lyrics) ==
    SelectSeq([i \in 1..Len(lyrics.items) |-> LineText(lyrics.items[i])],
              LAMBDA line : line.t # "null")

RECURSIVE ExtractLyricsText(_), FirstLyricsText(_, _)

\* The loop over an array: the text of the first item that has one.
FirstLyricsText(items, i) ==
    IF i > Len(items) THEN NULL
    ELSE IF Truthy(ExtractLyricsText(items[i])) THEN ExtractLyricsText(items[i])
    ELSE FirstLyricsText(items, i + 1)

\* extractLyricsText(value): a string, or null.
ExtractLyricsText(value) ==
    IF ~JTruthy(value) THEN NULL
    ELSE IF value.t = "string"
         THEN IF Trim(value.s) # "" THEN Trim(value.s) ELSE NULL
    ELSE IF value.t = "array" THEN FirstLyricsText(value.items, 1)
    ELSE IF value.t = "object"
         THEN LET text == IF "text" \in DOMAIN value.obj /\ JTruthy(value.obj["text"])
                          THEN ExtractLyricsText(value.obj["text"])
                          ELSE NULL
              IN  IF Truthy(text) THEN text
                  ELSE IF "descriptor" \in DOMAIN value.obj /\ JTruthy(value.obj["descriptor"])
                       THEN ExtractLyricsText(value.obj["descriptor"])
                  ELSE IF "lyrics" \in DOMAIN value.obj /\ value.obj["lyrics"].t = "array"
                       THEN IF Len(LyricsLines(value.obj["lyrics"])) > 0
                            THEN Join(LyricsLines(value.obj["lyrics"]), NewLine)
                            ELSE NULL
                  ELSE NULL
    ELSE NULL

(***************************************************************************)
(* MetadataParser.extractLyrics.  The decoded metadata holds the common    *)
(* lyrics field and, per tag container, whether the file has the container *)
(* and its tags in file order.  Descriptions of TXXX frames are strings or  *)
(* missing.                                                                *)
(***************************************************************************)
Absent == [present |-> FALSE, tags |-> <<>>]

Container(tags) == [present |-> TRUE, tags |-> tags]

Tag(id, value) == [id |-> id, value |-> value]

\* tags.find(pred), given the positions of the tags pred holds of: the first
\* of them, 0 for none.
Find(hits) ==
    IF hits = {} THEN 0 ELSE CHOOSE i \in hits : \A j \in hits : i <= j

\* if (tag?.value) { const lyricsText = this.extractLyricsText(tag.value); ... }
TagText(tags, i) ==
    IF i # 0 /\ JTruthy(tags[i].value) THEN ExtractLyricsText(tags[i].value) ELSE NULL

\* The loop over metadata.common.lyrics.
RECURSIVE CommonLyricsFrom(_, _)
CommonLyricsFrom(items, i) ==
    IF i > Len(items) THEN NULL
    ELSE LET lyric == items[i]
             text == Get(lyric, "text")
         IN  IF lyric.t = "string" /\ Trim(lyric.s) # "" THEN Trim(lyric.s)
             ELSE IF /\ lyric.t = "object"
                     /\ "text" \in DOMAIN lyric.obj
                     /\ text.t = "string"
                     /\ Trim(text.s) # ""
                  THEN Trim(text.s)
             ELSE CommonLyricsFrom(items, i + 1)

CommonLyrics(lyrics) ==
    IF JTruthy(lyrics) /\ lyrics.t = "array" THEN CommonLyricsFrom(lyrics.items, 1) ELSE NULL

\* A TXXX test that compares the description as it is written.
IsLyricsTxxxCaseSensitive(tag) ==
    /\ tag.id = "TXXX"
    /\ Get(tag.value, "description").t = "string"
    /\ Includes(Get(tag.value, "description").s, "lyric")

\* tag.id === "TXXX" && tag.value?.description?.toLowerCase().includes("lyric")
IsLyricsTxxx(tag) ==
    /\ tag.id = "TXXX"
    /\ Get(tag.value, "description").t = "string"
    /\ Includes(ToLowerCase(Get(tag.value, "description").s), "lyric")

\* The text of the TXXX step: the frame's value.text, when both are truthy.
TxxxText(tags, i) ==
    IF i # 0 /\ JTruthy(tags[i].value) /\ JTruthy(Get(tags[i].value, "text"))
    THEN ExtractLyricsText(Get(tags[i].value, "text"))
    ELSE NULL

\* The lyrics of one container: the text of the first tag whose id is one of
\* ids (tag.id === ... || tag.id === ...).
ContainerLyrics(container, ids) ==
    IF container.present
    THEN TagText(container.tags,
                 Find({i \in DOMAIN container.tags : container.tags[i].id \in ids}))
    ELSE NULL

\* extractLyrics(metadata): the first of its steps that gives a text.
ExtractLyrics(metadata) ==
    LET native == metadata.native
        common == CommonLyrics(metadata.common.lyrics)
        uslt == ContainerLyrics(native.id3v2, {"USLT"})
        sylt == ContainerLyrics(native.id3v2, {"SYLT"})
        txxx == IF native.id3v2.present
                THEN TxxxText(native.id3v2.tags,
                              Find({i \in DOMAIN native.id3v2.tags :
                                       IsLyricsTxxx(native.id3v2.tags[i])}))
                ELSE NULL
        vorbis == ContainerLyrics(native.vorbis,
                                  {"LYRICS", "UNSYNCEDLYRICS", "lyrics", "UNSYNCED LYRICS"})
        apev2 == ContainerLyrics(native.apev2, {"Lyrics", "LYRICS", "UNSYNCED LYRICS"})
        itunesNative == IF native.iTunes.present THEN native.iTunes ELSE native.mp4
        itunes == ContainerLyrics(itunesNative, {"(c)lyr", "----:com.apple.iTunes:LYRICS"})
        asf == ContainerLyrics(native.asf, {"WM/Lyrics", "WM/Lyrics_Synchronised"})
    IN  IF Truthy(common) THEN common
        ELSE IF Truthy(uslt) THEN uslt
        ELSE IF Truthy(sylt) THEN sylt
        ELSE IF Truthy(txxx) THEN txxx
        ELSE IF Truthy(vorbis) THEN vorbis
        ELSE IF Truthy(apev2) THEN apev2
        ELSE IF Truthy(itunes) THEN itunes
        ELSE IF Truthy(asf) THEN asf
        ELSE NULL

(***************************************************************************)
(* File change events.                                                     *)
(***************************************************************************)
\* handleFileChange(filePath, type), up to the callback it hands to setTimeout.
HandleFileChange(filePath, type) ==
    IF ~IsSupportedAudioFile(FileName(filePath))
    THEN UNCHANGED <<cache, isDirty, saveTimeout, timers, unflushed, staleTimer, view,
                     provenanceVars>>
    ELSE /\ isDirty' = TRUE
         /\ staleJobs' = [staleJobs EXCEPT ![filePath] = jobs[filePath]]
         /\ storedLatest' = [storedLatest EXCEPT ![filePath] = FALSE]
         /\ IF type = "delete"
            THEN LET s == ScheduleSave(timers, saveTimeout)
                 IN  /\ cache' = MapDelete(cache, filePath)
                     /\ timers' = s.timers
                     /\ saveTimeout' = s.saveTimeout
                     /\ unflushed' = (unflushed \/ filePath \in DOMAIN cache)
                     /\ staleTimer' = FALSE
                     /\ view' = Detach(view, {filePath})
            ELSE /\ timers' = SetTimeout(timers, saveTimeout, "settle", filePath, SettleDelay)
                 /\ staleTimer' = (staleTimer \/ SavePending(timers))
                 /\ UNCHANGED <<cache, saveTimeout, unflushed, view>>

FileCreated(p) ==
    /\ events < MaxEvents
    /\ p \notin vault
    /\ vault' = vault \cup {p}
    /\ events' = events + 1
    /\ HandleFileChange(p, "create")
    /\ UNCHANGED <<onSaveNeeded, disposed, progressVars, parserVars, dataFile, jobs, refreshVars,
                   saveCalls, earlyFlush, lifecycle, settingsVars, callVars>>

FileModified(p) ==
    /\ events < MaxEvents
    /\ p \in vault
    /\ events' = events + 1
    /\ HandleFileChange(p, "modify")
    /\ UNCHANGED <<onSaveNeeded, disposed, progressVars, parserVars, envVars, jobs, refreshVars,
                   saveCalls, earlyFlush, lifecycle, settingsVars, callVars>>

FileDeleted(p) ==
    /\ events < MaxEvents
    /\ p \in vault
    /\ vault' = vault \ {p}
    /\ events' = events + 1
    /\ HandleFileChange(p, "delete")
    /\ UNCHANGED <<onSaveNeeded, disposed, progressVars, parserVars, dataFile, jobs, refreshVars,
                   saveCalls, earlyFlush, lifecycle, settingsVars, callVars>>

\* The setTimeout callback of handleFileChange, up to its await: the file is
\* looked up and, when it exists, its extraction starts.
SettleElapsed(i) ==
    /\ i \in DOMAIN timers
    /\ timers[i].kind = "settle"
    /\ CanFire(timers, i)
    /\ timers' = RemoveAt(timers, i)
    /\ jobs' = IF timers[i].path \in vault
               THEN [jobs EXCEPT ![timers[i].path] = @ + 1]
               ELSE jobs
    /\ UNCHANGED <<managerVars, progressVars, parserVars, envVars, refreshVars,
                   historyVars, staleTimer, provenanceVars, disposed, settingsVars, consumerVars, callVars>>

\* The rest of that callback: the awaited extraction returns or throws.
ExtractionDone(p, e) ==
    /\ jobs[p] > 0
    /\ jobs' = [jobs EXCEPT ![p] = @ - 1]
    /\ \E stale \in {b \in BOOLEAN : IF b THEN staleJobs[p] > 0 ELSE jobs[p] > staleJobs[p]} :
          LET r == ExtractFileMetadata(e, nextBlob)
              s == ScheduleSave(timers, saveTimeout)
          IN  /\ staleJobs' = IF stale THEN [staleJobs EXCEPT ![p] = @ - 1] ELSE staleJobs
              /\ IF r.threw
                 THEN UNCHANGED <<cache, timers, saveTimeout, parserVars, unflushed,
                                  staleTimer, view, storedLatest>>
                 ELSE /\ cache' = MapSet(cache, p, r.metadata)
                      /\ storedLatest' = [storedLatest EXCEPT ![p] = ~stale]
                      /\ view' = Detach(view, {p})
                      /\ timers' = s.timers
                      /\ saveTimeout' = s.saveTimeout
                      /\ blobUrls' = blobUrls \cup RegisteredBy(e, nextBlob)
                      /\ liveUrls' = liveUrls \cup {u \in {r.metadata.cover} : IsBlobUrl(u)}
                      /\ nextBlob' = nextBlob + Cardinality(RegisteredBy(e, nextBlob))
                      /\ unflushed' = TRUE
                      /\ staleTimer' = FALSE
    /\ UNCHANGED <<isDirty, onSaveNeeded, progressVars, envVars, refreshVars,
                   saveCalls, earlyFlush, events, lifecycle, settingsVars, callVars, disposed>>

OutstandingWork ==
    \/ \E i \in DOMAIN timers : timers[i].kind = "settle"
    \/ \E p \in AudioPaths : jobs[p] > 0
    \/ rpc \in {"loading", "processing"}

\* The setTimeout callback of scheduleSave.
SaveTimerFired(i) ==
    /\ i \in DOMAIN timers
    /\ timers[i].kind = "save"
    /\ CanFire(timers, i)
    /\ timers' = RemoveAt(timers, i)
    /\ isDirty' = FALSE
    /\ saveCalls' = IF onSaveNeeded THEN saveCalls + 1 ELSE saveCalls
    /\ unflushed' = FALSE
    /\ earlyFlush' = (earlyFlush \/ OutstandingWork)
    /\ staleTimer' = FALSE
    /\ UNCHANGED <<cache, saveTimeout, onSaveNeeded, progressVars, parserVars, envVars,
                   jobs, provenanceVars, disposed, refreshVars, events, lifecycle, settingsVars, consumerVars, callVars>>

SetSaveCallback ==
    /\ ~onSaveNeeded
    /\ onSaveNeeded' = TRUE
    /\ UNCHANGED <<cache, isDirty, saveTimeout, progressVars, parserVars, timers, envVars,
                   jobs, provenanceVars, disposed, refreshVars, historyVars, staleTimer, settingsVars, consumerVars, callVars>>

(***************************************************************************)
(* refreshAllMetadata.                                                     *)
(***************************************************************************)
EmptyData == [shape |-> "object", hasMetadata |-> TRUE, metadata |-> EmptyMap]

\* A loadExistingData without its final return: undefined after a failure.
LoadExistingDataNoFallback(file) ==
    IF file.status = "ok" THEN file.value
    ELSE [shape |-> "null", hasMetadata |-> FALSE, metadata |-> EmptyMap]

\* loadExistingData(): the parsed content of data.json; { metadata: {} } when
\* the file is missing or reading or parsing it throws.
LoadExistingData(file) == IF file.status = "ok" THEN file.value ELSE EmptyData

\* The files of the vault in the order getFiles() lists them.
ListFiles(S) == SelectSeq(VaultOrder, LAMBDA f : f \in S)

\* The musicFiles of refreshAllMetadata: for each valid folder, the supported
\* audio files whose path starts with the normalized folder.
RECURSIVE CollectMusicFiles(_, _)
CollectMusicFiles(folders, files) ==
    IF folders = <<>> THEN <<>>
    ELSE SelectSeq(files, LAMBDA f : /\ StartsWith(f, NormalizePath(Head(folders)))
                                      /\ IsSupportedAudioFile(FileName(f)))
         \o CollectMusicFiles(Tail(folders), files)

ValidFolders(musicFolderPaths) ==
    SelectSeq(musicFolderPaths, LAMBDA p : Truthy(p) /\ Trim(p) # "")

\* A completeness test that asks for an album as well.
IsCompleteWithAlbum(record) ==
    Truthy(record.title) /\ Truthy(record.artist) /\ Truthy(record.album)

\* The test of processFileIfNeeded: the existing data holds a record for the
\* path and the record has a title and an artist.
IsComplete(record) == Truthy(record.title) /\ Truthy(record.artist)

HasExisting(data, path) == data.hasMetadata /\ path \in DOMAIN data.metadata

\* The record processFileIfNeeded builds from a complete existing record.
ReusedMetadata(existingMetadata) ==
    [title |-> existingMetadata.title,
     artist |-> existingMetadata.artist,
     album |-> Or(existingMetadata.album, "zh:unknown-album"),
     cover |-> Or(existingMetadata.cover, NULL),
     lyrics |-> Or(existingMetadata.lyrics, NULL)]

\* The record processFileIfNeeded stores when it catches an error.
DefaultMetadata(path) ==
    [title |-> FileBasename(path), artist |-> "zh:unknown-artist",
     album |-> "zh:unknown-album", cover |-> NULL, lyrics |-> NULL]

\* processFileIfNeeded up to its await: "typeError" when reading a property of
\* a null existingData throws, "reuse" for a complete record, else "pending"
\* (extractFileMetadata is awaited).
ProcessFileIfNeeded(path, data) ==
    IF data.shape = "null" THEN "typeError"
    ELSE IF HasExisting(data, path) /\ IsComplete(data.metadata[path]) THEN "reuse"
    ELSE "pending"

\* The cache after the synchronous parts of the tasks of files[i..]
RECURSIVE CacheAfterLoop(_, _, _, _)
CacheAfterLoop(c, files, data, i) ==
    IF i > Len(files) THEN c
    ELSE LET path == files[i]
             how == ProcessFileIfNeeded(path, data)
             next == IF how = "typeError" THEN MapSet(c, path, DefaultMetadata(path))
                     ELSE IF how = "reuse"
                          THEN MapSet(c, path, ReusedMetadata(data.metadata[path]))
                     ELSE c
         IN  CacheAfterLoop(next, files, data, i + 1)

\* A wait that ends with the first task settled.
AnySettled(t) == \E i \in DOMAIN t : t[i] # "pending"

\* Promise.allSettled(processingPromises) has an answer.
AllSettled(t) == \A i \in DOMAIN t : t[i] # "pending"

\* refreshAllMetadata(musicFolderPaths) up to its first await.
RefreshAllMetadata(musicFolderPaths) ==
    /\ rpc \in {"idle", "resolved", "rejected"}
    /\ refreshes' = refreshes + 1
    /\ validFolders' = ValidFolders(musicFolderPaths)
    /\ rpc' = IF Len(ValidFolders(musicFolderPaths)) = 0 THEN "resolved" ELSE "loading"
    /\ existingData' = EmptyData
    /\ musicFiles' = <<>>
    /\ tasks' = <<>>
    /\ batchDecodes' = 0
    /\ UNCHANGED <<managerVars, progressVars, parserVars, timers, envVars, jobs,
                   provenanceVars, disposed, historyVars, staleTimer, settingsVars, consumerVars,
                   callVars>>

\* From the answer of loadExistingData to the await of Promise.allSettled.
RefreshLoaded ==
    /\ rpc = "loading"
    /\ rpc' = "processing"
    /\ LET data == LoadExistingData(dataFile)
           files == CollectMusicFiles(validFolders, ListFiles(vault))
           started == [i \in 1..Len(files) |-> ProcessFileIfNeeded(files[i], data)]
       IN  /\ existingData' = data
           /\ isDirty' = TRUE
           /\ staleTimer' = (staleTimer \/ SavePending(timers))
           /\ musicFiles' = files
           /\ tasks' = started
           /\ cache' = CacheAfterLoop(cache, files, data, 1)
           /\ unflushed' = (unflushed \/ CacheAfterLoop(cache, files, data, 1) # cache)
           /\ batchDecodes' = Cardinality({i \in 1..Len(files) : started[i] = "pending"})
           /\ view' = Detach(view, {files[i] : i \in {j \in 1..Len(files) : started[j] # "pending"}})
           /\ storedLatest' =
                  [q \in AudioPaths |->
                      /\ storedLatest[q]
                      /\ \A i \in 1..Len(files) : files[i] = q => started[i] = "pending"]
    /\ UNCHANGED <<saveTimeout, onSaveNeeded, progressVars, parserVars, timers, envVars,
                   jobs, staleJobs, disposed, validFolders, refreshes, saveCalls, earlyFlush, events, lifecycle,
                   settingsVars, callVars>>

\* The rest of a processFileIfNeeded task: the awaited extraction returns or
\* throws.
TaskDone(i, e) ==
    /\ rpc = "processing"
    /\ i \in DOMAIN tasks
    /\ tasks[i] = "pending"
    /\ LET r == ExtractFileMetadata(e, nextBlob)
       IN  IF r.threw
           THEN /\ cache' = MapSet(cache, musicFiles[i], DefaultMetadata(musicFiles[i]))
                /\ tasks' = [tasks EXCEPT ![i] = "readFail"]
                /\ UNCHANGED parserVars
           ELSE /\ cache' = MapSet(cache, musicFiles[i], r.metadata)
                /\ tasks' = [tasks EXCEPT ![i] = IF e.decode = "ok" THEN "ok" ELSE "decodeFail"]
                /\ blobUrls' = blobUrls \cup RegisteredBy(e, nextBlob)
                /\ liveUrls' = liveUrls \cup {u \in {r.metadata.cover} : IsBlobUrl(u)}
                /\ nextBlob' = nextBlob + Cardinality(RegisteredBy(e, nextBlob))
    /\ unflushed' = TRUE
    /\ view' = Detach(view, {musicFiles[i]})
    /\ storedLatest' = [storedLatest EXCEPT ![musicFiles[i]] = FALSE]
    /\ UNCHANGED <<isDirty, saveTimeout, onSaveNeeded, progressVars, timers, envVars, jobs,
                   staleJobs, disposed,
                   rpc, existingData, musicFiles, validFolders, refreshes, batchDecodes,
                   saveCalls, earlyFlush, staleTimer, events, lifecycle, settingsVars, callVars>>

\* After Promise.allSettled: the skipped files are counted, which reads
\* existingData.metadata once per file, and the save is scheduled.
RefreshSettled ==
    /\ rpc = "processing"
    /\ AllSettled(tasks)
    /\ IF existingData.shape = "null" /\ Len(musicFiles) > 0
       THEN /\ rpc' = "rejected"
            /\ UNCHANGED <<timers, saveTimeout, staleTimer>>
       ELSE /\ rpc' = "resolved"
            /\ timers' = ScheduleSave(timers, saveTimeout).timers
            /\ saveTimeout' = ScheduleSave(timers, saveTimeout).saveTimeout
            /\ staleTimer' = FALSE
    /\ UNCHANGED <<cache, isDirty, onSaveNeeded, progressVars, parserVars, envVars, jobs, provenanceVars, disposed,
                   existingData, musicFiles, validFolders, tasks, refreshes, batchDecodes,
                   historyVars, settingsVars, consumerVars, callVars>>

(***************************************************************************)
(* Settings and lifecycle.                                                 *)
(***************************************************************************)
NoSettings == [hasMetadata |-> FALSE, metadata |-> EmptyMap]

NoExport == [made |-> FALSE, metadata |-> EmptyMap]

\* An initialization that keeps every cover as it was saved.
InitializedMetadataKeepCover(metadata) ==
    [title |-> metadata.title,
     artist |-> metadata.artist,
     album |-> metadata.album,
     cover |-> metadata.cover,
     lyrics |-> Or(metadata.lyrics, NULL)]

\* The record initializeFromSettings builds from a persisted one.
InitializedMetadata(metadata) ==
    [title |-> metadata.title,
     artist |-> metadata.artist,
     album |-> metadata.album,
     cover |-> IF Truthy(metadata.cover) /\ StartsWith(metadata.cover, "blob:")
               THEN NULL
               ELSE metadata.cover,
     lyrics |-> Or(metadata.lyrics, NULL)]

InitializeFromSettings(settings) ==
    /\ lifecycle' = lifecycle + 1
    /\ cache' = IF settings.hasMetadata
                THEN [p \in DOMAIN settings.metadata |-> InitializedMetadata(settings.metadata[p])]
                ELSE EmptyMap
    /\ totalTracks' = IF settings.hasMetadata THEN Cardinality(DOMAIN settings.metadata) ELSE 0
    /\ processedTracks' = IF settings.hasMetadata THEN Cardinality(DOMAIN settings.metadata) ELSE 0
    /\ isInitialized' = TRUE
    /\ lastSettings' = settings
    /\ exported' = NoExport
    /\ view' = Detach(view, DOMAIN view.map)
    /\ storedLatest' = [q \in AudioPaths |-> FALSE]
    /\ UNCHANGED <<isDirty, saveTimeout, onSaveNeeded, parserVars, timers, envVars, jobs,
                   staleJobs, disposed,
                   refreshVars, saveCalls, unflushed, earlyFlush, staleTimer, events, callVars>>

\* exportToSettings(): the records of the cache under their paths.
ExportedMetadata(c) == [p \in DOMAIN c |-> c[p]]

ExportToSettings ==
    /\ exported' = [made |-> TRUE, metadata |-> ExportedMetadata(cache)]
    /\ exported' # exported
    /\ UNCHANGED <<managerVars, progressVars, parserVars, timers, envVars, jobs, provenanceVars, disposed,
                   refreshVars, historyVars, staleTimer, lastSettings, consumerVars, callVars>>

\* cleanup(): the held timer is cleared, the registered blob URLs are revoked
\* and forgotten (MetadataParser.cleanup) and the cache is emptied.
Cleanup ==
    /\ lifecycle' = lifecycle + 1
    /\ timers' = IF saveTimeout # 0 THEN ClearTimeout(timers, saveTimeout) ELSE timers
    /\ liveUrls' = liveUrls \ blobUrls
    /\ blobUrls' = {}
    /\ cache' = EmptyMap
    /\ staleTimer' = FALSE
    /\ view' = Detach(view, DOMAIN view.map)
    /\ storedLatest' = [q \in AudioPaths |-> FALSE]
    /\ disposed' = TRUE
    /\ UNCHANGED <<isDirty, saveTimeout, onSaveNeeded, progressVars, nextBlob, envVars,
                   jobs, staleJobs, refreshVars, saveCalls, unflushed, earlyFlush, events, settingsVars, callVars>>

(***************************************************************************)
(* Reading the store, and what a consumer can do with what it was given.   *)
(***************************************************************************)
\* getMetadata(filePath): the record of the cache in a one-element sequence,
\* the empty sequence for null.
GetMetadata(c, filePath) == IF filePath \in DOMAIN c THEN <<c[filePath]>> ELSE <<>>

\* getAllMetadata(): new Map(this.cache), a new Map whose values are the
\* objects the cache holds.
GetAllMetadata ==
    /\ view' = [made |-> TRUE,
                map |-> [p \in DOMAIN cache |-> [value |-> cache[p], shared |-> TRUE]]]
    /\ view' # view
    /\ UNCHANGED <<managerVars, progressVars, parserVars, timers, envVars, jobs, provenanceVars, disposed,
                   refreshVars, historyVars, staleTimer, settingsVars, callVars>>

ConsumerRecord ==
    [title |-> "mine", artist |-> "mine", album |-> "mine", cover |-> NULL, lyrics |-> NULL]

ConsumerFields == {"title", "cover"}

\* The consumer calls set(path, record) on its Map.
ConsumerSetsKey(p) ==
    /\ view.made
    /\ view' = [view EXCEPT !.map = MapSet(@, p, [value |-> ConsumerRecord, shared |-> FALSE])]
    /\ view' # view
    /\ UNCHANGED <<managerVars, progressVars, parserVars, timers, envVars, jobs, provenanceVars, disposed,
                   refreshVars, historyVars, staleTimer, settingsVars, callVars>>

\* The consumer calls delete(path) on its Map.
ConsumerDeletesKey(p) ==
    /\ view.made
    /\ p \in DOMAIN view.map
    /\ view' = [view EXCEPT !.map = MapDelete(@, p)]
    /\ UNCHANGED <<managerVars, progressVars, parserVars, timers, envVars, jobs, provenanceVars, disposed,
                   refreshVars, historyVars, staleTimer, settingsVars, callVars>>

\* The consumer assigns to a field of a record of its Map: the assignment
\* changes the object, whoever else holds it.
ConsumerWritesField(p, field) ==
    /\ view.made
    /\ p \in DOMAIN view.map
    /\ view.map[p].value[field] # "edited"
    /\ view' = [view EXCEPT !.map[p].value[field] = "edited"]
    /\ cache' = IF view.map[p].shared THEN [cache EXCEPT ![p][field] = "edited"] ELSE cache
    /\ UNCHANGED <<isDirty, saveTimeout, onSaveNeeded, progressVars, parserVars, timers,
                   envVars, jobs, provenanceVars, disposed, refreshVars, historyVars, staleTimer, settingsVars, callVars>>

ConsumerMutates ==
    \E p \in AudioPaths :
        \/ ConsumerSetsKey(p)
        \/ ConsumerDeletesKey(p)
        \/ \E field \in ConsumerFields : ConsumerWritesField(p, field)

(***************************************************************************)
(* The parser called on its own.                                           *)
(***************************************************************************)
\* The strings and scalars that tag values are made of here.
TagScalars ==
    {JUndefined, JNull, JNumber} \cup {JString(str) : str \in {"", "  ", "la", " la "}}

\* The tag values extractLyricsText is called with: scalars, objects with a
\* text, a descriptor or a list of timed lines, and arrays.
TagValues ==
    LET lines == {JString("l1"), JString(" "), JNull,
                  JObject([text |-> JString("l2"), timestamp |-> JNumber]),
                  JObject([text |-> JString(" "), timestamp |-> JNumber]),
                  JObject([timestamp |-> JNumber])}
        lineLists == {<<>>} \cup {<<a>> : a \in lines} \cup {<<a, b>> : a, b \in lines}
        objects ==
            {JObject([language |-> JString("eng")])}
                \cup {JObject([language |-> JString("eng"), text |-> x]) : x \in TagScalars}
                \cup {JObject([descriptor |-> x]) : x \in TagScalars}
                \cup {JObject([lyrics |-> JArray(l)]) : l \in lineLists}
                \cup {JObject([text |-> x, lyrics |-> JArray(<<JString("l1")>>)]) :
                          x \in TagScalars}
                \cup {JObject([text |-> JObject([text |-> JString(" la ")])]),
                      JObject([text |-> JArray(<<JString(""), JString("la")>>)])}
        arrays ==
            {JArray(<<>>)}
                \cup {JArray(<<a>>) : a \in TagScalars}
                \cup {JArray(<<a, b>>) :
                          a \in TagScalars,
                          b \in {JString("second"), JObject([text |-> JString("t2")])}}
                \cup {JArray(<<JObject([text |-> a]), JString("second")>>) : a \in TagScalars}
    IN  TagScalars \cup objects \cup arrays

\* A TXXX frame whose description names lyrics, and two that do not.
LyricsTxxx(description) ==
    Tag("TXXX", JObject([description |-> JString(description),
                         text |-> JString("line1" \o NewLine \o "line2")]))

OtherTxxx ==
    <<Tag("TXXX", JObject([description |-> JString("replaygain_track_gain"),
                           text |-> JString("-6 dB")])),
      Tag("TXXX", JObject([text |-> JString("no description")]))>>

\* The ID3v2 tags: every USLT and SYLT frame, absent, blank or with a text,
\* with and without a lyrics TXXX frame after them, and every list of TXXX
\* frames on its own.
Id3v2Options ==
    LET uslt == {<<>>} \cup {<<Tag("USLT", JObject([language |-> JString("eng"),
                                                     text |-> JString(str)]))>> :
                                 str \in {" ", "uslt"}}
        sylt == {<<>>,
                 <<Tag("SYLT", JObject([lyrics |-> JArray(<<JObject([text |-> JString(" "),
                                                                      timestamp |-> JNumber])>>)]))>>,
                 <<Tag("SYLT", JObject([lyrics |-> JArray(<<JObject([text |-> JString("s1"),
                                                                      timestamp |-> JNumber]),
                                                             JString("s2")>>)]))>>}
        txxx == {<<>>, OtherTxxx, <<LyricsTxxx("Lyrics-XXX")>>,
                 OtherTxxx \o <<LyricsTxxx("Lyrics-XXX")>>,
                 OtherTxxx \o <<LyricsTxxx("UNSYNCED LYRICS")>>, <<LyricsTxxx("my lyric")>>}
    IN  {Absent}
            \cup {Container(<<Tag("TIT2", JString("Song"))>> \o u \o sy \o t) :
                     u \in uslt, sy \in sylt, t \in {<<>>, <<LyricsTxxx("Lyrics-XXX")>>}}
            \cup {Container(<<Tag("TIT2", JString("Song"))>> \o t) : t \in txxx}

\* The Vorbis comments: none, no lyrics comment, a blank one, and a lyrics
\* comment under each spelling of its key.
VorbisOptions ==
    {Absent, Container(<<Tag("TITLE", JString("Song"))>>),
     Container(<<Tag("TITLE", JString("Song")), Tag("LYRICS", JString(" "))>>)}
        \cup {Container(<<Tag("TITLE", JString("Song")), Tag(key, JString("vorbis"))>>) :
                 key \in {"LYRICS", "UNSYNCEDLYRICS", "lyrics", "Lyrics", "unsyncedlyrics",
                          "UnsyncedLyrics"}}

\* The APEv2, iTunes, mp4 and ASF containers of a file; a file has an iTunes
\* container or an mp4 container, never both.
LaterOptions ==
    LET ape == Container(<<Tag("Lyrics", JString("ape"))>>)
        itunes == Container(<<Tag("(c)lyr", JString("itunes"))>>)
        asf == Container(<<Tag("WM/Lyrics", JString("asf"))>>)
    IN  {[apev2 |-> Absent, iTunes |-> Absent, mp4 |-> Absent, asf |-> Absent],
         [apev2 |-> ape, iTunes |-> Absent, mp4 |-> Absent, asf |-> Absent],
         [apev2 |-> Absent, iTunes |-> itunes, mp4 |-> Absent, asf |-> Absent],
         [apev2 |-> Absent, iTunes |-> Absent, mp4 |-> itunes, asf |-> Absent],
         [apev2 |-> Absent, iTunes |-> Absent, mp4 |-> Absent, asf |-> asf],
         [apev2 |-> ape, iTunes |-> itunes, mp4 |-> Absent, asf |-> asf],
         [apev2 |-> Container(<<Tag("Lyrics", JString(" "))>>), iTunes |-> Absent,
          mp4 |-> Container(<<Tag("(c)lyr", JString(""))>>), asf |-> asf]}

\* The decoded metadata of audio files: per lyrics source, the file lacks it,
\* holds it with a blank text or holds it with a text.
DecodedMetadata ==
    LET commonLyrics ==
            {JUndefined,
             JArray(<<JString(" ")>>),
             JArray(<<JString(" common ")>>),
             JArray(<<JObject([text |-> JString(" ")]), JObject([text |-> JString("common2")])>>)}
    IN  {[common |-> [lyrics |-> c],
          native |-> [id3v2 |-> i, vorbis |-> v, apev2 |-> l.apev2, iTunes |-> l.iTunes,
                      mp4 |-> l.mp4, asf |-> l.asf]] :
            c \in commonLyrics, i \in Id3v2Options, v \in VorbisOptions, l \in LaterOptions}

NoMetadata ==
    [common |-> [lyrics |-> JUndefined],
     native |-> [id3v2 |-> Absent, vorbis |-> Absent, apev2 |-> Absent, iTunes |-> Absent,
                 mp4 |-> Absent, asf |-> Absent]]

\* The .lrc sidecar: none, unreadable, empty, blank, or a text.
LrcOptions == {UNDEFINED, "", "  ", "[00:01]la "}

\* An audio file as extractFileMetadata meets it: whether readBinary and
\* parseBuffer succeed, the decoded metadata and the text of the sidecar.
Buffers ==
    {[read |-> "ok", decode |-> "ok", picture |-> FALSE, metadata |-> m, lrc |-> l] :
        m \in DecodedMetadata, l \in LrcOptions}
        \cup {[read |-> r, decode |-> "fail", picture |-> FALSE, metadata |-> NoMetadata,
               lrc |-> l] : r \in {"ok", "fail"}, l \in LrcOptions}

\* The files of the calls that follow one another.
FewBuffers ==
    {[read |-> r, decode |-> "fail", picture |-> FALSE, metadata |-> NoMetadata, lrc |-> l] :
        r \in {"ok", "fail"}, l \in LrcOptions}
        \cup {[read |-> "ok", decode |-> "ok", picture |-> p, metadata |-> NoMetadata,
               lrc |-> l] : p \in BOOLEAN, l \in {UNDEFINED, "[00:01]la "}}

\* What reading and decoding the file b yields, the lyrics of its tags included.
Decoded(b) ==
    [read |-> b.read, decode |-> b.decode,
     title |-> IF b.decode = "ok" THEN "Song" ELSE UNDEFINED,
     artist |-> IF b.decode = "ok" THEN "Band" ELSE UNDEFINED,
     album |-> UNDEFINED,
     picture |-> b.picture,
     tagLyrics |-> IF b.decode = "ok" THEN ExtractLyrics(b.metadata) ELSE NULL,
     lrc |-> b.lrc]

\* Whether the object extractMetadata returns for e is DEFAULT_METADATA itself.
ReturnsDefaultObject(e) ==
    e.read = "ok" /\ e.decode # "ok" /\ SpreadCopy(defaultMetadata).isDefaultObject

\* extractFileMetadata(file) for the file b, from call to answer.
ExtractFileMetadataCall(b) ==
    /\ LET r == ExtractFileMetadata(Decoded(b), nextBlob)
       IN  parsed' = [called |-> TRUE,
                      calls |-> IF parsed.called THEN parsed.calls + 1 ELSE 1,
                      input |-> b,
                      threw |-> r.threw,
                      returned |-> r.metadata,
                      result |-> r.metadata,
                      isDefaultObject |-> ReturnsDefaultObject(Decoded(b)),
                      editedDefault |-> parsed.called /\ parsed.editedDefault]
    /\ blobUrls' = blobUrls \cup RegisteredBy(Decoded(b), nextBlob)
    /\ liveUrls' = liveUrls
                      \cup {u \in {ExtractFileMetadata(Decoded(b), nextBlob).metadata.cover} :
                               b.read = "ok" /\ IsBlobUrl(u)}
    /\ nextBlob' = nextBlob + Cardinality(RegisteredBy(Decoded(b), nextBlob))
    /\ UNCHANGED <<managerVars, progressVars, timers, envVars, jobs, provenanceVars, disposed, refreshVars,
                   historyVars, staleTimer, settingsVars, consumerVars, defaultMetadata,
                   normalized>>

\* The caller assigns to a field of the record it was given.
CallerWritesResult(field) ==
    /\ parsed.called
    /\ ~parsed.threw
    /\ parsed.result[field] # "edited"
    /\ parsed' = [parsed EXCEPT !.result[field] = "edited",
                                !.editedDefault = @ \/ parsed.input.decode # "ok"]
    /\ defaultMetadata' = IF parsed.isDefaultObject
                          THEN [defaultMetadata EXCEPT ![field] = "edited"]
                          ELSE defaultMetadata
    /\ UNCHANGED <<managerVars, progressVars, parserVars, timers, envVars, jobs, provenanceVars, disposed, refreshVars,
                   historyVars, staleTimer, settingsVars, consumerVars, normalized>>

\* extractLyricsText(value), called with any tag value.
ExtractLyricsTextCall(value) ==
    /\ normalized' = [called |-> TRUE, value |-> value, result |-> ExtractLyricsText(value)]
    /\ UNCHANGED <<managerVars, progressVars, parserVars, timers, envVars, jobs, provenanceVars, disposed, refreshVars,
                   historyVars, staleTimer, settingsVars, consumerVars, defaultMetadata, parsed>>

(***************************************************************************)
(* Specifications.                                                         *)
(***************************************************************************)
Constructed ==
    /\ cache = EmptyMap
    /\ isDirty = FALSE
    /\ saveTimeout = 0
    /\ isInitialized = FALSE
    /\ totalTracks = 0
    /\ processedTracks = 0
    /\ blobUrls = {}
    /\ nextBlob = 1
    /\ liveUrls = {}
    /\ timers = <<>>
    /\ jobs = [p \in AudioPaths |-> 0]
    /\ staleJobs = [p \in AudioPaths |-> 0]
    /\ storedLatest = [p \in AudioPaths |-> FALSE]
    /\ rpc = "idle"
    /\ existingData = EmptyData
    /\ musicFiles = <<>>
    /\ validFolders = <<>>
    /\ tasks = <<>>
    /\ saveCalls = 0
    /\ unflushed = FALSE
    /\ earlyFlush = FALSE
    /\ staleTimer = FALSE
    /\ events = 0
    /\ refreshes = 0
    /\ batchDecodes = 0
    /\ lifecycle = 0
    /\ disposed = FALSE
    /\ lastSettings = NoSettings
    /\ exported = NoExport
    /\ view = NoView
    /\ defaultMetadata = DEFAULT_METADATA
    /\ parsed = [called |-> FALSE]
    /\ normalized = [called |-> FALSE, value |-> JUndefined, result |-> NULL]

\* The whole manager: a fresh manager in a vault that lacks one audio file.
\* cleanup is the last call the plugin makes: what runs after it are the
\* timers and the awaited reads that were set going before it.
Init ==
    /\ Constructed
    /\ onSaveNeeded = FALSE
    /\ vault = Paths \ {"Music/b.mp3"}
    /\ dataFile \in SavedDataFiles

Next ==
    \/ SetSaveCallback
    \/ \E s \in SavedSettings :
          ~disposed /\ lifecycle < MaxLifecycle /\ InitializeFromSettings(s)
    \/ ~disposed /\ lifecycle < MaxLifecycle /\ Cleanup
    \/ \E p \in Paths : ~disposed /\ FileCreated(p)
    \/ \E p \in Paths : ~disposed /\ FileModified(p)
    \/ \E p \in Paths : ~disposed /\ FileDeleted(p)
    \/ \E i \in DOMAIN timers : SettleElapsed(i)
    \/ \E p \in AudioPaths, e \in Extractions : ExtractionDone(p, e)
    \/ \E i \in DOMAIN timers : SaveTimerFired(i)
    \/ \E roots \in RootArgs :
          ~disposed /\ refreshes < MaxRefresh /\ RefreshAllMetadata(roots)
    \/ RefreshLoaded
    \/ \E i \in DOMAIN tasks, e \in Extractions : TaskDone(i, e)
    \/ RefreshSettled

Spec == Init /\ [][Next]_vars

\* A burst of modify events: each for another path, all delivered before the
\* settle delay of the first has elapsed.
BurstModified(p) ==
    /\ Len(timers) = events
    /\ \A i \in DOMAIN timers : timers[i].path # p
    /\ FileModified(p)

InitBurst ==
    /\ Constructed
    /\ onSaveNeeded = TRUE
    /\ vault = Paths
    /\ dataFile \in {f \in DataFiles : f.status = "missing"}

NextBurst ==
    \/ \E p \in AudioPaths : BurstModified(p)
    \/ \E i \in DOMAIN timers : SettleElapsed(i)
    \/ \E p \in AudioPaths, e \in Extractions : ExtractionDone(p, e)
    \/ \E i \in DOMAIN timers : SaveTimerFired(i)

SpecBurst == InitBurst /\ [][NextBurst]_vars

\* refreshAllMetadata batches over an unchanged vault, for every data file.
InitRefresh ==
    /\ Constructed
    /\ onSaveNeeded = TRUE
    /\ vault = Paths
    /\ dataFile \in DataFiles

NextRefresh ==
    \/ \E roots \in RootArgs : refreshes < MaxBatches /\ RefreshAllMetadata(roots)
    \/ RefreshLoaded
    \/ \E i \in DOMAIN tasks, e \in Extractions : TaskDone(i, e)
    \/ RefreshSettled
    \/ \E i \in DOMAIN timers : SaveTimerFired(i)

SpecRefresh == InitRefresh /\ [][NextRefresh]_vars

\* initializeFromSettings and exportToSettings, for every settings object.
InitSettings ==
    /\ Constructed
    /\ onSaveNeeded = TRUE
    /\ vault = Paths
    /\ dataFile \in {f \in DataFiles : f.status = "missing"}

NextSettings ==
    \/ \E st \in SettingsInputs : lifecycle < MaxInits /\ InitializeFromSettings(st)
    \/ ExportToSettings

SpecSettings == InitSettings /\ [][NextSettings]_vars

\* A consumer of an initialized store: it asks for all metadata and changes
\* what it was given.
InitConsumer ==
    /\ Constructed
    /\ onSaveNeeded = TRUE
    /\ vault = Paths
    /\ dataFile \in {f \in DataFiles : f.status = "missing"}

NextConsumer ==
    \/ \E st \in SavedSettings : lifecycle < MaxInits /\ InitializeFromSettings(st)
    \/ GetAllMetadata
    \/ \E p \in AudioPaths : ConsumerSetsKey(p)
    \/ \E p \in AudioPaths : ConsumerDeletesKey(p)
    \/ \E p \in AudioPaths, field \in ConsumerFields : ConsumerWritesField(p, field)

SpecConsumer == InitConsumer /\ [][NextConsumer]_vars

\* extractLyricsText applied to tag values of every shape.
InitLyricsText ==
    /\ Constructed
    /\ onSaveNeeded = FALSE
    /\ vault = Paths
    /\ dataFile \in {f \in DataFiles : f.status = "missing"}

NextLyricsText == \E value \in TagValues : ExtractLyricsTextCall(value)

SpecLyricsText == InitLyricsText /\ [][NextLyricsText]_vars

\* One extractFileMetadata call, for every file.
NextParser == ~parsed.called /\ \E b \in Buffers : ExtractFileMetadataCall(b)

SpecParser == InitLyricsText /\ [][NextParser]_vars

\* Calls that follow one another, the caller changing what it was given.
NextDefault ==
    \/ \E b \in FewBuffers :
          (parsed.called => parsed.calls < MaxCalls) /\ ExtractFileMetadataCall(b)
    \/ \E field \in ConsumerFields : CallerWritesResult(field)

SpecDefault == InitLyricsText /\ [][NextDefault]_vars

\* Modify events for files that can be read, each followed by its settle
\* delay and its extraction, which take any amount of time.
NextRace ==
    \/ \E p \in AudioPaths : FileModified(p)
    \/ \E i \in DOMAIN timers : SettleElapsed(i)
    \/ \E p \in AudioPaths, e \in {x \in Extractions : x.read = "ok"} : ExtractionDone(p, e)
    \/ \E i \in DOMAIN timers : SaveTimerFired(i)

SpecRace == InitBurst /\ [][NextRace]_vars

\* Covers are extracted and the registry is released, again and again.
NextRegistry ==
    \/ \E b \in FewBuffers :
          (parsed.called => parsed.calls < MaxCalls) /\ ExtractFileMetadataCall(b)
    \/ lifecycle < MaxInits /\ Cleanup

SpecRegistry == InitLyricsText /\ [][NextRegistry]_vars

(***************************************************************************)
(* Properties.                                                             *)
(***************************************************************************)
Quiescent == timers = <<>> /\ \A p \in AudioPaths : jobs[p] = 0

\* The record data.json holds for a path, if it holds one.
HasPersisted(file, path) ==
    /\ file.status = "ok"
    /\ file.value.hasMetadata
    /\ path \in DOMAIN file.value.metadata

PersistedComplete(file, path) ==
    /\ HasPersisted(file, path)
    /\ file.value.metadata[path].title \notin {"", NULL, UNDEFINED}
    /\ file.value.metadata[path].artist \notin {"", NULL, UNDEFINED}

BatchStarted == rpc \in {"processing", "resolved", "rejected"} /\ Len(validFolders) > 0

BatchOver == rpc \in {"resolved", "rejected"} /\ Len(validFolders) > 0

\* C1: a delete event for a supported audio path removes the path from the
\* store and invokes the save callback in the same step, without waiting for
\* the debounce timer.
C1_DeleteFlushesAtOnce ==
    [][\A p \in AudioPaths :
          (onSaveNeeded /\ FileDeleted(p)) =>
              (p \notin DOMAIN cache' /\ saveCalls' = saveCalls + 1)]_vars

\* C2: whenever the store holds a mutation made by refreshAllMetadata or by a
\* change event that no firing of the flush timer has covered yet, needsSave()
\* is true.
C2_DirtyUntilFlushed == unflushed => isDirty

C4_DirtyMarkResetsTimer ==
    /\ [](Cardinality({i \in DOMAIN timers : timers[i].kind = "save"}) <= 1)
    /\ [][(\E i \in DOMAIN timers : SaveTimerFired(i)) => ~staleTimer]_vars

\* C5: every blob URL held as a cover in the store is registered in the
\* registry of the parser of this process.
C5_NoStaleCover ==
    \A p \in DOMAIN cache : IsBlobUrl(cache[p].cover) => cache[p].cover \in blobUrls

SettingsMap == IF lastSettings.hasMetadata THEN lastSettings.metadata ELSE EmptyMap

\* C6 (as amended): the snapshot exported right after initializeFromSettings(S)
\* has the keys of S and equals S in title, artist and album; a cover of S
\* that is a blob URL is null, every other cover is kept; lyrics of S that are
\* empty or missing are null, all other lyrics are kept.
C6_RoundTrip ==
    exported.made =>
        /\ DOMAIN exported.metadata = DOMAIN SettingsMap
        /\ \A p \in DOMAIN SettingsMap :
              /\ exported.metadata[p].title = SettingsMap[p].title
              /\ exported.metadata[p].artist = SettingsMap[p].artist
              /\ exported.metadata[p].album = SettingsMap[p].album
              /\ exported.metadata[p].cover =
                    IF IsBlobUrl(SettingsMap[p].cover) THEN NULL ELSE SettingsMap[p].cover
              /\ exported.metadata[p].lyrics =
                    IF SettingsMap[p].lyrics \in {"", UNDEFINED} THEN NULL
                    ELSE SettingsMap[p].lyrics

C6_RoundTripWitness ==
    /\ exported.made
    /\ \E p \in DOMAIN SettingsMap :
          IsBlobUrl(SettingsMap[p].cover) /\ exported.metadata[p].cover = NULL
    /\ \E p \in DOMAIN SettingsMap :
          SettingsMap[p].cover = "data:img" /\ exported.metadata[p].cover = "data:img"

\* C6 (as claimed): every field but a blob URL cover comes back as it was in
\* S, the lyrics included.
C6_RoundTripVerbatim ==
    exported.made =>
        /\ DOMAIN exported.metadata = DOMAIN SettingsMap
        /\ \A p \in DOMAIN SettingsMap :
              /\ exported.metadata[p].title = SettingsMap[p].title
              /\ exported.metadata[p].artist = SettingsMap[p].artist
              /\ exported.metadata[p].album = SettingsMap[p].album
              /\ exported.metadata[p].cover =
                    IF IsBlobUrl(SettingsMap[p].cover) THEN NULL ELSE SettingsMap[p].cover
              /\ SettingsMap[p].lyrics # UNDEFINED =>
                    exported.metadata[p].lyrics = SettingsMap[p].lyrics

\* C7: in a batch, a file is re-extracted if and only if data.json holds no
\* record for it or the record lacks a non-empty title or a non-empty artist.
C7_ReparseIffIncomplete ==
    BatchStarted =>
        \A i \in DOMAIN tasks :
            (tasks[i] \in {"pending", "ok", "decodeFail", "readFail"})
                <=> ~PersistedComplete(dataFile, musicFiles[i])

\* C8: from the second refreshAllMetadata call on, a batch whose data.json
\* holds a record with a non-empty title and artist for every file re-decodes
\* nothing: every task reuses the persisted record.
C8_SecondRefreshNoDecode ==
    (/\ refreshes >= 2
     /\ BatchStarted
     /\ \A i \in DOMAIN musicFiles : PersistedComplete(dataFile, musicFiles[i]))
        => (batchDecodes = 0 /\ \A i \in DOMAIN tasks : tasks[i] = "reuse")

C8_SecondRefreshWitness ==
    /\ refreshes = 2
    /\ rpc = "resolved"
    /\ Len(musicFiles) = 2
    /\ \A i \in DOMAIN musicFiles : PersistedComplete(dataFile, musicFiles[i])
    /\ batchDecodes = 0

C10_RefreshResolves == BatchOver => rpc = "resolved"

\* C11: when data.json is missing or reading or parsing it fails, the batch
\* goes on with the empty snapshot { metadata: {} }, the call does not reject,
\* and every enumerated file is extracted anew (none is reused, none gets the
\* placeholder of a thrown error before its extraction).
C11_LoadFailureReextractsAll ==
    (BatchStarted /\ dataFile.status # "ok") =>
        /\ existingData = EmptyData
        /\ rpc # "rejected"
        /\ batchDecodes = Len(musicFiles)
        /\ \A i \in DOMAIN tasks : tasks[i] \in {"pending", "ok", "decodeFail", "readFail"}

C11_LoadFailureWitness ==
    /\ rpc = "resolved"
    /\ dataFile.status = "parseError"
    /\ Len(musicFiles) = 2
    /\ \A i \in DOMAIN tasks : tasks[i] = "ok"

\* C12: nothing a consumer does to the Map it got from getAllMetadata (setting
\* or deleting a key, assigning to a field of one of its records) changes what
\* getMetadata, getAllMetadata and exportToSettings return afterwards.
C12_DefensiveCopy ==
    [][ConsumerMutates =>
          /\ \A q \in AudioPaths : GetMetadata(cache', q) = GetMetadata(cache, q)
          /\ ExportedMetadata(cache') = ExportedMetadata(cache)]_vars

\* The extractions of path p that have started and not completed: those of
\* change events and that of the running batch.
InFlight(p) ==
    jobs[p] + Cardinality({i \in DOMAIN tasks :
                              rpc = "processing" /\ tasks[i] = "pending" /\ musicFiles[i] = p})

\* C13: at no time are two extractions of the same path in flight.
C13_OneExtractionPerPath == \A p \in AudioPaths : InFlight(p) <= 1

\* C14: when the extraction a create or modify event started, after its
\* settle delay, for a file that exists comes to its end, the store holds the
\* re-extracted record of the path, the dirty flag is set and a flush timer is
\* pending (whose firing is the flush notification that follows the store).
C14_SettleExtractFlush ==
    [][\A p \in AudioPaths, e \in Extractions :
          ExtractionDone(p, e) =>
              /\ p \in DOMAIN cache'
              /\ cache'[p] = ExtractMetadata(e, IF Truthy(e.lrc) /\ Truthy(Trim(e.lrc))
                                                THEN e.lrc ELSE UNDEFINED, nextBlob)
              /\ isDirty'
              /\ SavePending(timers')]_vars

\* C15: an extraction whose decoding fails does not throw and returns the
\* default placeholder record, whatever the sidecar holds; what a caller does
\* to a record it was given never changes the default that later calls
\* return.
C15_DecodeFailureGivesDefault ==
    /\ defaultMetadata = DEFAULT_METADATA
    /\ (parsed.called /\ parsed.input.read = "ok" /\ parsed.input.decode = "fail") =>
          (~parsed.threw /\ parsed.returned = DEFAULT_METADATA)

C15_DecodeFailureWitness ==
    /\ parsed.called
    /\ parsed.calls = 2
    /\ parsed.editedDefault
    /\ parsed.input.read = "ok"
    /\ parsed.input.decode = "fail"
    /\ parsed.input.lrc = "[00:01]la "
    /\ parsed.returned = DEFAULT_METADATA
    /\ parsed.result = parsed.returned

\* C16: for a file that decodes, a sidecar text that is not blank is the
\* resolved lyrics, as it was read, whatever the tags hold; without a sidecar
\* or with an empty or blank one the lyrics are those of the tags.
C16_SidecarPrecedence ==
    (parsed.called /\ parsed.input.read = "ok" /\ parsed.input.decode = "ok") =>
        IF parsed.input.lrc \notin {UNDEFINED, "", "  "}
        THEN parsed.returned.lyrics = parsed.input.lrc
        ELSE parsed.returned.lyrics = ExtractLyrics(parsed.input.metadata)

C16_SidecarWitness ==
    /\ parsed.called
    /\ parsed.input.decode = "ok"
    /\ parsed.input.lrc = "[00:01]la "
    /\ ExtractLyrics(parsed.input.metadata) = "uslt"
    /\ parsed.returned.lyrics = "[00:01]la "

\* A string of blanks and line ends only.
IsBlank(str) == \A i \in 1..Len(str) : SubSeq(str, i, i) \in {" ", NewLine}

\* The texts of the timed lines of a list: a line that is a string, else the
\* text field of the line; lines without a text are left out.
TimedLineTexts(lines) ==
    SelectSeq([i \in 1..Len(lines) |->
                  IF lines[i].t = "string" THEN lines[i] ELSE Get(lines[i], "text")],
              LAMBDA text : text.t \notin {"null", "undefined"})

\* The normalization rule as the specification words it: a string is trimmed
\* and null when empty; a list gives the first element with a text; an object
\* with a text field gives the text of that field; an object with a list of
\* timed lines gives the texts of the lines joined by line ends (null when no
\* line has a text); all else gives null.
RECURSIVE NormalizedText(_), FirstNormalizedText(_, _)

FirstNormalizedText(items, i) ==
    IF i > Len(items) THEN NULL
    ELSE IF NormalizedText(items[i]) # NULL THEN NormalizedText(items[i])
    ELSE FirstNormalizedText(items, i + 1)

NormalizedText(value) ==
    IF value.t = "string" THEN (IF Trim(value.s) # "" THEN Trim(value.s) ELSE NULL)
    ELSE IF value.t = "array" THEN FirstNormalizedText(value.items, 1)
    ELSE IF value.t = "object" /\ "text" \in DOMAIN value.obj
         THEN NormalizedText(value.obj["text"])
    ELSE IF value.t = "object" /\ "lyrics" \in DOMAIN value.obj /\ value.obj["lyrics"].t = "array"
         THEN IF Len(TimedLineTexts(value.obj["lyrics"].items)) > 0
              THEN Join(TimedLineTexts(value.obj["lyrics"].items), NewLine)
              ELSE NULL
    ELSE NULL

\* C18: extractLyricsText follows the one recursive rule for every shape of
\* value, and its result is null or a string that is neither empty nor made
\* of white space only.
C18_OneNormalizationRule ==
    normalized.called =>
        /\ normalized.result = NormalizedText(normalized.value)
        /\ normalized.result # NULL => ~IsBlank(normalized.result)

\* The lyrics sources of the fallback chain in its order: the common lyrics
\* field, USLT, SYLT, the text of the lyrics TXXX frame, the Vorbis comment,
\* APEv2, iTunes or MP4, ASF.  The source of a container is the value of its
\* first lyrics tag, undefined when the file has no such container or the
\* container no such tag.
ChainSteps(metadata) ==
    LET native == metadata.native
        At(container, hits) ==
            IF container.present /\ hits # {}
            THEN container.tags[Find(hits)].value
            ELSE JUndefined
        FrameValue(container, ids) ==
            At(container, {i \in DOMAIN container.tags : container.tags[i].id \in ids})
    IN  <<metadata.common.lyrics,
          FrameValue(native.id3v2, {"USLT"}),
          FrameValue(native.id3v2, {"SYLT"}),
          Get(At(native.id3v2, {i \in DOMAIN native.id3v2.tags :
                                   IsLyricsTxxx(native.id3v2.tags[i])}), "text"),
          FrameValue(native.vorbis, {"LYRICS", "UNSYNCEDLYRICS", "lyrics", "UNSYNCED LYRICS"}),
          FrameValue(native.apev2, {"Lyrics", "LYRICS", "UNSYNCED LYRICS"}),
          FrameValue(IF native.iTunes.present THEN native.iTunes ELSE native.mp4,
                     {"(c)lyr", "----:com.apple.iTunes:LYRICS"}),
          FrameValue(native.asf, {"WM/Lyrics", "WM/Lyrics_Synchronised"})>>

\* The text a step yields: its normalized text, null when that is blank.
StepText(value) ==
    IF NormalizedText(value) = NULL \/ IsBlank(NormalizedText(value))
    THEN NULL
    ELSE NormalizedText(value)

\* The text of the lowest-numbered step that yields one, null without one.
ResolvedByChain(metadata) ==
    LET steps == ChainSteps(metadata)
        hits == {i \in DOMAIN steps : StepText(steps[i]) # NULL}
    IN  IF hits = {} THEN NULL
        ELSE StepText(steps[CHOOSE i \in hits : \A j \in hits : i <= j])

\* C17: without a sidecar the resolved lyrics of a decoded file are the
\* normalized text of the first step of the chain that yields a text; steps
\* whose container or tag is absent or whose value is blank are passed over;
\* the lyrics are null only when no step yields a text.
C17_FirstMatchWins ==
    (parsed.called /\ parsed.input.decode = "ok" /\ parsed.input.lrc = UNDEFINED) =>
        parsed.returned.lyrics = ResolvedByChain(parsed.input.metadata)

\* The texts of the Vorbis comments whose key is LYRICS or UNSYNCEDLYRICS in
\* some case variant.
VorbisLyricsTexts(metadata) ==
    LET tags == metadata.native.vorbis.tags
    IN  {StepText(tags[i].value) :
            i \in {j \in DOMAIN tags : ToLowerCase(tags[j].id) \in {"lyrics", "unsyncedlyrics"}}}
        \ {NULL}

\* C19: when the steps before the Vorbis step yield no text and a Vorbis
\* comment with the key LYRICS or UNSYNCEDLYRICS, in whatever case it is
\* written, holds a text, that text is the resolved lyrics.
C19_VorbisAnyCase ==
    (/\ parsed.called
     /\ parsed.input.decode = "ok"
     /\ parsed.input.lrc = UNDEFINED
     /\ ExtractLyrics([parsed.input.metadata EXCEPT
                           !.native.vorbis = Absent, !.native.apev2 = Absent,
                           !.native.iTunes = Absent, !.native.mp4 = Absent,
                           !.native.asf = Absent]) = NULL
     /\ VorbisLyricsTexts(parsed.input.metadata) # {})
        => parsed.returned.lyrics \in VorbisLyricsTexts(parsed.input.metadata)

\* The ID3v2 tag list holds a TXXX frame whose description contains "lyric"
\* in some letter case, with the text line1, newline, line2, and that frame
\* is the only lyrics-bearing tag: no common lyrics, no USLT or SYLT frame,
\* no lyrics tag in another container, no sidecar file.
OnlyLyricsTxxx ==
    /\ parsed.called
    /\ parsed.input.read = "ok"
    /\ parsed.input.decode = "ok"
    /\ parsed.input.lrc = UNDEFINED
    /\ \E i \in DOMAIN parsed.input.metadata.native.id3v2.tags :
            LET tag == parsed.input.metadata.native.id3v2.tags[i]
            IN  /\ tag.id = "TXXX"
                /\ Get(tag.value, "description").t = "string"
                /\ Includes(ToLowerCase(Get(tag.value, "description").s), "lyric")
                /\ Get(tag.value, "text") = JString("line1\nline2")
    /\ parsed.input.metadata.common.lyrics = JUndefined
    /\ \A i \in DOMAIN parsed.input.metadata.native.id3v2.tags :
            parsed.input.metadata.native.id3v2.tags[i].id \notin {"USLT", "SYLT"}
    /\ ExtractLyrics([parsed.input.metadata EXCEPT !.common.lyrics = JUndefined,
                                                    !.native.id3v2 = Absent]) = NULL

\* C20: when the only lyrics-bearing tag is an ID3v2 TXXX frame whose
\* description contains "lyric" in any letter case, the resolved lyrics are
\* that frame's text, also when TXXX frames with unrelated or missing
\* descriptions come before it in the tag list.
C20_TxxxLyrics ==
    OnlyLyricsTxxx => parsed.returned.lyrics = "line1\nline2"

\* The example of the claim: description Lyrics-XXX, after the other TXXX
\* frames.
C20_TxxxWitness ==
    /\ OnlyLyricsTxxx
    /\ \E i \in DOMAIN parsed.input.metadata.native.id3v2.tags :
            /\ parsed.input.metadata.native.id3v2.tags[i].id = "TXXX"
            /\ Get(parsed.input.metadata.native.id3v2.tags[i].value, "description")
                    = JString("Lyrics-XXX")
            /\ \E j \in 1..(i - 1), k \in 1..(i - 1) :
                    /\ parsed.input.metadata.native.id3v2.tags[j].id = "TXXX"
                    /\ Get(parsed.input.metadata.native.id3v2.tags[j].value, "description").t
                            = "string"
                    /\ parsed.input.metadata.native.id3v2.tags[k].id = "TXXX"
                    /\ Get(parsed.input.metadata.native.id3v2.tags[k].value, "description")
                            = JUndefined
    /\ parsed.returned.lyrics = "line1\nline2"

\* C21: every blob URL extractCover hands out is in the registry when the
\* call returns; cleanup revokes every URL that is still live and leaves the
\* registry empty; a cleanup of an empty registry changes neither the
\* registry nor the live URLs.
C21_CoverRegistry ==
    [][/\ \A b \in FewBuffers :
              (ExtractFileMetadataCall(b) /\ ~parsed'.threw /\ IsBlobUrl(parsed'.returned.cover))
                  => (parsed'.returned.cover \in blobUrls' /\ liveUrls' \subseteq blobUrls')
       /\ Cleanup => (blobUrls' = {} /\ liveUrls' = {})
       /\ (Cleanup /\ blobUrls = {}) => (blobUrls' = blobUrls /\ liveUrls' = liveUrls)]_vars

\* Two covers were handed out and the registry was released twice since.
C21_RegistryWitness ==
    /\ parsed.called
    /\ parsed.calls = 2
    /\ IsBlobUrl(parsed.returned.cover)
    /\ nextBlob = 3
    /\ lifecycle = 2
    /\ blobUrls = {}
    /\ liveUrls = {}

\* C22: once the settle delays of the change events for a path have elapsed
\* and the extractions they started have completed, the record the store
\* holds for the path was extracted from the file as the latest of those
\* events left it.
C22_NoLostUpdate ==
    \A p \in AudioPaths :
        (/\ p \in DOMAIN cache
         /\ jobs[p] = 0
         /\ \A i \in DOMAIN timers : ~(timers[i].kind = "settle" /\ timers[i].path = p))
            => storedLatest[p]

\* C23: a path whose file was deleted while an extraction for it was under
\* way, started by a change event or by a refreshAllMetadata batch, and that
\* has not been created again, has no record in the store when that
\* extraction completes.
C23_DeletedStaysDeleted ==
    [][\A p \in AudioPaths :
          (/\ p \notin vault
           /\ \/ \E e \in Extractions : ExtractionDone(p, e)
              \/ \E i \in DOMAIN tasks, e \in Extractions : musicFiles[i] = p /\ TaskDone(i, e))
              => p \notin DOMAIN cache']_vars

\* C24: before any cleanup, whenever needsSave() is true a flush timer is
\* pending or a settle delay, an extraction or a refreshAllMetadata batch is
\* still outstanding.
C24_DirtyNeverStuck ==
    (isDirty /\ ~disposed) => (SavePending(timers) \/ OutstandingWork)

\* C25: a record that the extraction of the latest change event for its path
\* has stored, and that no save notification has followed yet, is left as it
\* is when a refreshAllMetadata batch loads a data file that holds a record
\* for the path and processes the files.
C25_RefreshKeepsFresher ==
    [][\A p \in AudioPaths :
          (/\ RefreshLoaded
           /\ HasPersisted(dataFile, p)
           /\ storedLatest[p]
           /\ saveCalls = 0
           /\ p \in DOMAIN cache)
              => (p \in DOMAIN cache' /\ cache'[p] = cache[p])]_vars

\* C26: after cleanup the save callback is not invoked and the store stays
\* empty, whatever settle delays, extractions or batch were outstanding when
\* cleanup was called.
C26_QuiescentAfterCleanup ==
    [][disposed => (cache' = EmptyMap /\ saveCalls' = saveCalls)]_vars

\* C27: a flush timer that fires while the store holds a mutation no flush
\* has covered, and clears the dirty flag, invokes the save callback, once,
\* in the same step.
C27_ClearedOnlyWithSave ==
    [][\A i \in DOMAIN timers :
          (SaveTimerFired(i) /\ unflushed /\ isDirty /\ ~isDirty')
              => saveCalls' = saveCalls + 1]_vars

====
